---- MODULE Spec2Model ----
(***************************************************************************)
(* Model of cmd/chainmintcli/main.go: command dispatch, transport          *)
(* bootstrap, guard encoding for grant/revoke, the wait poller and the     *)
(* deferred-log fatal exits.                                               *)
(*                                                                         *)
(* Strings whose characters matter (guard tokens, URLs, arguments) are     *)
(* sequences of one-character strings.                                     *)
(***************************************************************************)
EXTENDS Integers, Sequences, FiniteSets

VARIABLES
    pc,         \* position of the single thread: main, bootstrap, handler, probe, sleep, exited
    osArgs,     \* os.Args[1:] as [cmd: 0 or 1 names, rest: os.Args[2:]]
    tlsState,   \* what core.TLSConfig finds under home: absent, invalid, valid
    coreURL,    \* *coreURL
    cmd,        \* handler selected by commands[os.Args[1]], "" before the lookup
    client,     \* the *rpc.Client built by mustRPCClient
    bootstraps, \* number of times mustRPCClient ran
    logbuf,     \* var logbuf bytes.Buffer
    stderr,     \* writes to os.Stderr, in order
    stdout,     \* writes to os.Stdout, in order
    exitCode,   \* process exit status, -1 while running
    drains,     \* number of io.Copy(os.Stderr, &logbuf) executed
    requests,   \* requests handed to client.Call, in order
    err,        \* result of the latest client.Call
    typ,        \* editAuthz: first result of splitAfter2
    data,       \* editAuthz: second result of splitAfter2
    slept,      \* wait: total time spent in time.Sleep, ms
    n503        \* wait: number of probes answered with status 503

vars == <<pc, osArgs, tlsState, coreURL, cmd, client, bootstraps, logbuf,
          stderr, stdout, exitCode, drains, requests, err, typ, data,
          slept, n503>>

\* ------------------------------------------------------------------ bounds
MaxValLen == 2      \* longest guard value tried
MaxRestLen == 1     \* longest URL remainder after the scheme
MaxProbes == 3      \* probes of /info explored in wait
MaxLog == 1         \* log entries the libraries write into logbuf

\* --------------------------------------------------------------- constants
SleepMs == 500

\* ------------------------------------------------------------ string tools
Min(S) == CHOOSE x \in S : \A y \in S : x <= y
Max(S) == CHOOSE x \in S : \A y \in S : x >= y

SeqsUpTo(A, n) == UNION {[1..k -> A] : k \in 0..n}

\* s[a:b] of Go, 0-based, b exclusive
Slice(s, a, b) == SubSeq(s, a + 1, b)

\* strings.Index: 0-based position of the first occurrence of sep, -1 if none
Index(s, sep) ==
    LET occ == {i \in 0..(Len(s) - Len(sep)) : Slice(s, i, i + Len(sep)) = sep}
    IN  IF occ = {} THEN -1 ELSE Min(occ)

LastIndex(s, sep) ==
    LET occ == {i \in 0..(Len(s) - Len(sep)) : Slice(s, i, i + Len(sep)) = sep}
    IN  IF occ = {} THEN -1 ELSE Max(occ)

HasPrefix(s, p) == Len(s) >= Len(p) /\ SubSeq(s, 1, Len(p)) = p

UpperChar(c) ==
    CASE c = "t" -> "T" [] c = "o" -> "O" [] c = "k" -> "K" [] c = "e" -> "E"
      [] c = "n" -> "N" [] c = "c" -> "C" [] c = "u" -> "U" [] c = "a" -> "A"
      [] c = "x" -> "X" [] c = "p" -> "P" [] c = "h" -> "H" [] c = "s" -> "S"
      [] c = "f" -> "F" [] OTHER -> c

\* strings.ToUpper
ToUpper(s) == [i \in 1..Len(s) |-> UpperChar(s[i])]

EQ == <<"=">>
TOKEN_EQ == <<"T", "O", "K", "E", "N", "=">>
CN_EQ == <<"C", "N", "=">>
OU_EQ == <<"O", "U", "=">>
HTTP_COLON == <<"h", "t", "t", "p", ":">>
HTTPS_COLON == <<"h", "t", "t", "p", "s", ":">>

\* splitAfter2 with the separator looked up from the right
splitAfter2Last(s, sep) ==
    LET i == LastIndex(s, sep)
        k == i + Len(sep)
    IN  <<Slice(s, 0, k), Slice(s, k, Len(s))>>

\* splitAfter2 returning the whole string as the first part when sep is absent
splitAfter2Whole(s, sep) ==
    LET i == Index(s, sep)
        k == IF i = -1 THEN Len(s) ELSE i + Len(sep)
    IN  <<Slice(s, 0, k), Slice(s, k, Len(s))>>

\* func splitAfter2(s, sep string) (a, b string)
splitAfter2(s, sep) ==
    LET i == Index(s, sep)
        k == i + Len(sep)
    IN  <<Slice(s, 0, k), Slice(s, k, Len(s))>>


\* ------------------------------------------------------------------ values
\* error values: nil, a transport-level error, or rpc.ErrStatusCode
Nil == [k |-> "nil", code |-> 0, hasData |-> FALSE, chainCode |-> "",
        message |-> "", detail |-> "", wrapped |-> FALSE]

StatusCodes == {404, 500, 503, 600}

\* ErrStatusCode.ErrorData: nil, or a decoded payload with its chain code
ErrorDatas ==
    {[hasData |-> FALSE, chainCode |-> "", message |-> "", detail |-> ""]}
    \cup {[hasData |-> TRUE, chainCode |-> "CH001", message |-> "msg", detail |-> d] :
             d \in {"", "more"}}

\* what client.Call can return
RPCResults ==
    {Nil}
    \cup {[Nil EXCEPT !.k = "transport", !.wrapped = w] : w \in BOOLEAN}
    \cup {[k |-> "status", code |-> c, hasData |-> d.hasData, chainCode |-> d.chainCode,
           message |-> d.message, detail |-> d.detail, wrapped |-> w] :
             c \in StatusCodes, d \in ErrorDatas, w \in BOOLEAN}

\* errors.Root
Root(e) == [e EXCEPT !.wrapped = FALSE]

\* one write to a stream
Ev(kind, s, e, n) == [kind |-> kind, s |-> s, e |-> e, n |-> n]

\* the ChainCode and Message fields as printed
CodeMsg(e) == [Nil EXCEPT !.k = "fields", !.chainCode = e.chainCode, !.message = e.message]
\* the Detail field as printed
DetailOf(e) == [Nil EXCEPT !.k = "fields", !.detail = e.detail]

\* a request handed to client.Call
Req(path, policy, gtype, shape, value) ==
    [path |-> path, policy |-> policy, guard_type |-> gtype,
     guard_data |-> [shape |-> shape, value |-> value]]

NoClient == [BaseURL |-> <<>>, Transport |-> "none"]

\* var commands = map[string]*command{...}
commands ==
    [n \in {"create-block-keypair", "reset", "grant", "revoke", "wait",
            "create-account", "update-account-tags", "create-asset",
            "update-asset-tags", "build-transaction"} |->
        CASE n = "create-block-keypair" -> "createBlockKeyPair"
          [] n = "reset" -> "reset"
          [] n = "grant" -> "grant"
          [] n = "revoke" -> "revoke"
          [] n = "wait" -> "wait"
          [] n = "create-account" -> "createAccount"
          [] n = "update-account-tags" -> "updateAccountTags"
          [] n = "create-asset" -> "createAsset"
          [] n = "update-asset-tags" -> "updateAssetTags"
          [] n = "build-transaction" -> "buildTransaction"]

\* ------------------------------------------------------------------ inputs
P == <<"p">>
DASH == <<"-">>
DASHDASH == <<"-", "-">>
FLAGX == <<"-", "x">>
G0 == <<"C", "N", "=", "a">>

ValChars == {"a", "="}

GuardPrefixes ==
    {<<"t", "o", "k", "e", "n">>, <<"T", "o", "K", "E", "N">>,
     <<"C", "N">>, <<"c", "N">>,
     <<"o", "u">>, <<"O", "U">>,
     <<"x">>, <<>>, <<"C", "N", "N">>, <<"T", "O", "K", "E">>}

GuardTokens ==
    {p \o s \o v : p \in GuardPrefixes, s \in {<<>>, EQ}, v \in SeqsUpTo(ValChars, MaxValLen)}

AuthzArgs ==
    {<<>>, <<P>>, <<P, G0, P>>, <<FLAGX>>, <<FLAGX, P, G0>>, <<DASHDASH, P, G0>>,
     <<DASHDASH, FLAGX, G0>>, <<DASH, G0>>}
    \cup {<<P, g>> : g \in GuardTokens}

SimpleArgs == {<<>>, <<P>>, <<P, P>>}

OsArgsSet ==
    {[cmd |-> <<>>, rest |-> <<>>]}
    \cup {[cmd |-> <<n>>, rest |-> r] : n \in {"grant", "revoke"}, r \in AuthzArgs}
    \cup {[cmd |-> <<n>>, rest |-> r] :
            n \in (DOMAIN commands \ {"grant", "revoke"}) \cup {"frobnicate", "-version"},
            r \in SimpleArgs}

Schemes ==
    {HTTP_COLON, HTTPS_COLON, <<"H", "T", "T", "P", ":">>, <<"f", "t", "p", ":">>,
     <<"x">>, <<"h", "t", "t", "p">>}

URLs == {s \o r : s \in Schemes, r \in SeqsUpTo({"/"}, MaxRestLen)}

\* --------------------------------------------------------- pure functions
\* fatalln: result of running it with message v on buffer buf
fatalln(v, buf) ==
    [out |-> <<Ev("logbuf", <<>>, Nil, Len(buf)), v>>,
     buf |-> <<>>, drained |-> 1, code |-> 2]

\* dieOnRPCError copying the buffer before looking at the error
dieOnRPCErrorEager(e, buf) ==
    IF e = Nil
    THEN [out |-> <<Ev("logbuf", <<>>, Nil, Len(buf))>>, buf |-> <<>>, drained |-> 1, code |-> -1]
    ELSE [out |-> <<Ev("logbuf", <<>>, Nil, Len(buf)), Ev("RPC error:", <<>>, e, 0)>>,
          buf |-> <<>>, drained |-> 1, code |-> 2]

\* dieOnRPCError looking at err instead of errors.Root(err), and always printing Detail
dieOnRPCErrorNoRoot(e, buf) ==
    IF e = Nil
    THEN [out |-> <<>>, buf |-> buf, drained |-> 0, code |-> -1]
    ELSE [out |-> <<Ev("logbuf", <<>>, Nil, Len(buf))>>
                  \o (IF e.k = "status" /\ ~e.wrapped /\ e.hasData
                      THEN <<Ev("RPC error:", <<>>, CodeMsg(e), 0),
                             Ev("Detail:", <<>>, DetailOf(e), 0)>>
                      ELSE <<Ev("RPC error:", <<>>, e, 0)>>),
          buf |-> <<>>, drained |-> 1, code |-> 2]

\* dieOnRPCError(err) as every caller uses it (no prefixes); code -1 means it returned
dieOnRPCError(e, buf) ==
    IF e = Nil
    THEN [out |-> <<>>, buf |-> buf, drained |-> 0, code |-> -1]
    ELSE LET msgErr == Root(e)
         IN  [out |-> <<Ev("logbuf", <<>>, Nil, Len(buf))>>
                      \o (IF msgErr.k = "status" /\ msgErr.hasData
                          THEN <<Ev("RPC error:", <<>>, CodeMsg(msgErr), 0)>>
                               \o (IF msgErr.detail # ""
                                   THEN <<Ev("Detail:", <<>>, DetailOf(msgErr), 0)>>
                                   ELSE <<>>)
                          ELSE <<Ev("RPC error:", <<>>, e, 0)>>),
              buf |-> <<>>, drained |-> 1, code |-> 2]

NoGuard == [known |-> FALSE, GuardType |-> "", shape |-> "", value |-> <<>>]

\* the switch of editAuthz matching on a prefix of the upper-cased type
guardSwitchPrefix(t, d) ==
    LET u == ToUpper(t)
    IN  CASE HasPrefix(u, <<"T", "O", "K", "E", "N">>) ->
               [known |-> TRUE, GuardType |-> "access_token", shape |-> "id", value |-> d]
          [] HasPrefix(u, <<"C", "N">>) ->
               [known |-> TRUE, GuardType |-> "x509", shape |-> "subject.CN", value |-> d]
          [] HasPrefix(u, <<"O", "U">>) ->
               [known |-> TRUE, GuardType |-> "x509", shape |-> "subject.OU", value |-> d]
          [] OTHER -> NoGuard

\* switch typ, data := splitAfter2(args[1], "="); strings.ToUpper(typ)
guardSwitch(t, d) ==
    LET u == ToUpper(t)
    IN  CASE u = TOKEN_EQ ->
               [known |-> TRUE, GuardType |-> "access_token", shape |-> "id", value |-> d]
          [] u = CN_EQ ->
               [known |-> TRUE, GuardType |-> "x509", shape |-> "subject.CN", value |-> d]
          [] u = OU_EQ ->
               [known |-> TRUE, GuardType |-> "x509", shape |-> "subject.OU", value |-> d]
          [] OTHER -> NoGuard

\* path of editAuthz
authzPath(action) ==
    IF action = "grant" THEN "/create-authorization-grant" ELSE "/delete-authorization-grant"

\* flags.Parse(args); flags.Args() for a FlagSet that defines no flag:
\* a leading "--" is consumed, any other leading flag is an error
flagParse(args) ==
    IF args = <<>> THEN [ok |-> TRUE, rest |-> args]
    ELSE LET s == args[1]
         IN  IF Len(s) < 2 \/ s[1] # "-" THEN [ok |-> TRUE, rest |-> args]
             ELSE IF s = DASHDASH THEN [ok |-> TRUE, rest |-> Tail(args)]
             ELSE [ok |-> FALSE, rest |-> args]

\* the scheme rewrite testing for "http" without the colon
tlsBaseURLLoose(url) ==
    IF HasPrefix(url, <<"h", "t", "t", "p">>)
    THEN HTTPS_COLON \o Slice(url, Min({5, Len(url)}), Len(url))
    ELSE url

\* url := *coreURL; if strings.HasPrefix(url, "http:") { url = "https:" + url[5:] }
tlsBaseURL(url) ==
    IF HasPrefix(url, HTTP_COLON) THEN HTTPS_COLON \o Slice(url, 5, Len(url)) ELSE url

\* the loop exit of wait taking every status of 500 and above as retryable
waitBreaksBelow500(e) ==
    \/ e = Nil
    \/ Root(e).k = "status" /\ Root(e).code < 500

\* wait: the two break conditions of the loop
waitBreaks(e) ==
    \/ e = Nil
    \/ Root(e).k = "status" /\ Root(e).code \div 100 # 5


\* ------------------------------------------------------------------ state
Init ==
    /\ pc = "main"
    /\ osArgs \in OsArgsSet
    /\ tlsState \in {"absent", "invalid", "valid"}
    /\ coreURL \in URLs
    /\ cmd = ""
    /\ client = NoClient
    /\ bootstraps = 0
    /\ logbuf = <<>>
    /\ stderr = <<>>
    /\ stdout = <<>>
    /\ exitCode = -1
    /\ drains = 0
    /\ requests = <<>>
    /\ err = Nil
    /\ typ = <<>>
    /\ data = <<>>
    /\ slept = 0
    /\ n503 = 0

envVars == <<osArgs, tlsState, coreURL>>
authzVars == <<typ, data>>
waitVars == <<slept, n503>>

\* a text line without payload
Line(text) == Ev(text, <<>>, Nil, 0)

\* help(w)
help == Ev("usage: corectl [-version] [command] [arguments]", <<>>, Nil, Cardinality(DOMAIN commands))

\* the process ends through fatalln(v)
Fatal(v) ==
    LET r == fatalln(v, logbuf)
    IN  /\ stderr' = stderr \o r.out
        /\ logbuf' = r.buf
        /\ drains' = drains + r.drained
        /\ exitCode' = r.code
        /\ pc' = "exited"

\* whether the libraries write a log entry during a call
LogChoices == IF Len(logbuf) < MaxLog THEN BOOLEAN ELSE {FALSE}
Logged(lg) == IF lg THEN Append(logbuf, "entry") ELSE logbuf

\* err := client.Call(ctx, path, req, ..); dieOnRPCError(err); print result; return
CallAndDie(req, result) ==
    \E e \in RPCResults, lg \in LogChoices :
        LET r == dieOnRPCError(e, Logged(lg))
        IN  /\ requests' = Append(requests, req)
            /\ err' = e
            /\ stderr' = stderr \o r.out
            /\ logbuf' = r.buf
            /\ drains' = drains + r.drained
            /\ stdout' = IF r.code = -1 THEN stdout \o result ELSE stdout
            /\ exitCode' = IF r.code = -1 THEN 0 ELSE r.code
            /\ pc' = "exited"

\* client.Call(ctx, path, req, &responses) with the error dropped; print; return
CallIgnoringError(req, before) ==
    \E e \in RPCResults, lg \in LogChoices :
        /\ requests' = Append(requests, req)
        /\ err' = e
        /\ logbuf' = Logged(lg)
        /\ stdout' = stdout \o before \o <<Line("responses:")>>
        /\ exitCode' = 0
        /\ pc' = "exited"
        /\ UNCHANGED <<stderr, drains>>

\* ---------------------------------------------------------------- actions
\* main with a handler table that falls back to a handler for unknown names
MainFallback ==
    /\ pc = "main"
    /\ IF Len(osArgs.cmd) >= 1 /\ osArgs.cmd = <<"-version">>
       THEN /\ stdout' = stdout \o <<Line("bytomcli"), Line("build-commit:"), Line("build-date:")>>
            /\ exitCode' = 0
            /\ pc' = "exited"
            /\ UNCHANGED <<cmd, stderr>>
       ELSE IF Len(osArgs.cmd) < 1
       THEN /\ stdout' = stdout \o <<help>>
            /\ exitCode' = 0
            /\ pc' = "exited"
            /\ UNCHANGED <<cmd, stderr>>
       ELSE /\ cmd' = IF osArgs.cmd[1] \in DOMAIN commands
                      THEN commands[osArgs.cmd[1]] ELSE "buildTransaction"
            /\ pc' = "bootstrap"
            /\ UNCHANGED <<stdout, stderr, exitCode>>
    /\ UNCHANGED <<envVars, client, bootstraps, logbuf, drains, requests, err,
                   authzVars, waitVars>>

\* func main(), up to the evaluation of cmd.f's arguments
Main ==
    /\ pc = "main"
    /\ IF Len(osArgs.cmd) >= 1 /\ osArgs.cmd = <<"-version">>
       THEN /\ stdout' = stdout \o <<Line("bytomcli"), Line("build-commit:"), Line("build-date:")>>
            /\ exitCode' = 0
            /\ pc' = "exited"
            /\ UNCHANGED <<cmd, stderr>>
       ELSE IF Len(osArgs.cmd) < 1
       THEN /\ stdout' = stdout \o <<help>>
            /\ exitCode' = 0
            /\ pc' = "exited"
            /\ UNCHANGED <<cmd, stderr>>
       ELSE IF osArgs.cmd[1] \notin DOMAIN commands
       THEN /\ stderr' = stderr \o <<Line("unknown command:"), help>>
            /\ exitCode' = 1
            /\ pc' = "exited"
            /\ UNCHANGED <<cmd, stdout>>
       ELSE /\ cmd' = commands[osArgs.cmd[1]]
            /\ pc' = "bootstrap"
            /\ UNCHANGED <<stdout, stderr, exitCode>>
    /\ UNCHANGED <<envVars, client, bootstraps, logbuf, drains, requests, err,
                   authzVars, waitVars>>

\* func mustRPCClient() *rpc.Client
MustRPCClient ==
    /\ pc = "bootstrap"
    /\ bootstraps' = bootstraps + 1
    /\ CASE tlsState = "absent" ->
              /\ client' = [BaseURL |-> coreURL, Transport |-> "nil"]
              /\ pc' = "handler"
              /\ UNCHANGED <<stderr, logbuf, drains, exitCode>>
         [] tlsState = "invalid" ->
              /\ Fatal(Line("error: loading TLS cert:"))
              /\ UNCHANGED client
         [] OTHER ->
              /\ client' = [BaseURL |-> tlsBaseURL(coreURL), Transport |-> "tls"]
              /\ pc' = "handler"
              /\ UNCHANGED <<stderr, logbuf, drains, exitCode>>
    /\ UNCHANGED <<envVars, cmd, stdout, requests, err, authzVars, waitVars>>

\* func createBlockKeyPair(client *rpc.Client, args []string)
CreateBlockKeyPair ==
    /\ pc = "handler" /\ cmd = "createBlockKeyPair"
    /\ IF Len(osArgs.rest) # 0
       THEN /\ Fatal(Line("error: create-block-keypair takes no args"))
            /\ UNCHANGED <<stdout, requests, err>>
       ELSE CallAndDie(Req("/mockhsm/create-block-key", <<>>, "", "", <<>>), <<Line("pub")>>)
    /\ UNCHANGED <<envVars, cmd, client, bootstraps, authzVars, waitVars>>

\* func reset(client *rpc.Client, args []string)
Reset ==
    /\ pc = "handler" /\ cmd = "reset"
    /\ IF Len(osArgs.rest) # 0
       THEN /\ Fatal(Line("error: reset takes no args"))
            /\ UNCHANGED <<stdout, requests, err>>
       ELSE CallAndDie(Req("/reset", <<>>, "", "", <<>>), <<>>)
    /\ UNCHANGED <<envVars, cmd, client, bootstraps, authzVars, waitVars>>

\* func editAuthz(client *rpc.Client, args []string, action string)
editAuthz(action) ==
    LET usage == IF action = "grant"
                 THEN Line("usage: corectl grant [policy] [guard]")
                 ELSE Line("usage: corectl revoke [policy] [guard]")
        fp == flagParse(osArgs.rest)
        args == fp.rest
    IN  IF ~fp.ok
        THEN \* flags.Usage: os.Exit(1)
             /\ stderr' = stderr \o <<Line("flag provided but not defined"), usage,
                                      Line("Where guard is one of:")>>
             /\ exitCode' = 1
             /\ pc' = "exited"
             /\ UNCHANGED <<logbuf, drains, stdout, requests, err, authzVars>>
        ELSE IF Len(args) # 2
        THEN /\ Fatal(usage)
             /\ UNCHANGED <<stdout, requests, err, authzVars>>
        ELSE LET sp == splitAfter2(args[2], EQ)
                 g == guardSwitch(sp[1], sp[2])
             IN  /\ typ' = sp[1]
                 /\ data' = sp[2]
                 /\ IF g.known
                    THEN CallAndDie(Req(authzPath(action), args[1], g.GuardType,
                                        g.shape, g.value), <<>>)
                    ELSE LET r == fatalln(usage, logbuf)
                         IN  /\ stderr' = stderr
                                   \o <<Ev("unknown guard type", sp[1], Nil, 0)>> \o r.out
                             /\ logbuf' = r.buf
                             /\ drains' = drains + r.drained
                             /\ exitCode' = r.code
                             /\ pc' = "exited"
                             /\ UNCHANGED <<stdout, requests, err>>

\* func grant(client *rpc.Client, args []string)
Grant ==
    /\ pc = "handler" /\ cmd = "grant"
    /\ editAuthz("grant")
    /\ UNCHANGED <<envVars, cmd, client, bootstraps, waitVars>>

\* func revoke(client *rpc.Client, args []string)
Revoke ==
    /\ pc = "handler" /\ cmd = "revoke"
    /\ editAuthz("revoke")
    /\ UNCHANGED <<envVars, cmd, client, bootstraps, waitVars>>

\* func wait: the argument check and the entry into the loop
Wait ==
    /\ pc = "handler" /\ cmd = "wait"
    /\ IF Len(osArgs.rest) # 0
       THEN Fatal(Line("error: wait takes no args"))
       ELSE /\ pc' = "probe"
            /\ UNCHANGED <<stderr, logbuf, drains, exitCode>>
    /\ UNCHANGED <<envVars, cmd, client, bootstraps, stdout, requests, err,
                   authzVars, waitVars>>

\* wait: one probe of /info and the two break tests
WaitProbe ==
    /\ pc = "probe"
    /\ Len(requests) < MaxProbes
    /\ \E e \in RPCResults, lg \in LogChoices :
        /\ requests' = Append(requests, Req("/info", <<>>, "", "", <<>>))
        /\ err' = e
        /\ logbuf' = Logged(lg)
        /\ n503' = IF Root(e).k = "status" /\ Root(e).code = 503 THEN n503 + 1 ELSE n503
        /\ IF waitBreaks(e)
           THEN pc' = "exited" /\ exitCode' = 0
           ELSE pc' = "sleep" /\ UNCHANGED exitCode
    /\ UNCHANGED <<envVars, cmd, client, bootstraps, stderr, stdout, drains,
                   authzVars, slept>>

\* wait: time.Sleep(500 * time.Millisecond) and back to the top of the loop
WaitSleep ==
    /\ pc = "sleep"
    /\ slept' = slept + SleepMs
    /\ pc' = "probe"
    /\ UNCHANGED <<envVars, cmd, client, bootstraps, logbuf, stderr, stdout, exitCode,
                   drains, requests, err, authzVars, n503>>

\* createAccount and createAsset: one argument, a fresh key, a call whose error is dropped
createWithKey(path, arityMsg) ==
    IF Len(osArgs.rest) # 1
    THEN /\ Fatal(Line(arityMsg))
         /\ UNCHANGED <<stdout, requests, err>>
    ELSE \E keyFails \in BOOLEAN :
            IF keyFails
            THEN /\ Fatal(Line("NewXprv error."))
                 /\ UNCHANGED <<stdout, requests, err>>
            ELSE CallIgnoringError(Req(path, osArgs.rest[1], "", "", <<>>),
                                   <<Line("xprv:"), Line("xpub:")>>)

\* func createAccount(client *rpc.Client, args []string)
CreateAccount ==
    /\ pc = "handler" /\ cmd = "createAccount"
    /\ createWithKey("/create-account", "error: createAccount takes no args")
    /\ UNCHANGED <<envVars, cmd, client, bootstraps, authzVars, waitVars>>

\* func createAsset(client *rpc.Client, args []string)
CreateAsset ==
    /\ pc = "handler" /\ cmd = "createAsset"
    /\ createWithKey("/create-asset", "error: createAsset takes no args")
    /\ UNCHANGED <<envVars, cmd, client, bootstraps, authzVars, waitVars>>

\* updateAccountTags and updateAssetTags: no argument, a call whose error is dropped
updateTags(path) ==
    IF Len(osArgs.rest) # 0
    THEN /\ Fatal(Line("error:updateAccountTags not use args"))
         /\ UNCHANGED <<stdout, requests, err>>
    ELSE CallIgnoringError(Req(path, <<>>, "", "", <<>>), <<>>)

\* func updateAccountTags(client *rpc.Client, args []string)
UpdateAccountTags ==
    /\ pc = "handler" /\ cmd = "updateAccountTags"
    /\ updateTags("/update-account-tags")
    /\ UNCHANGED <<envVars, cmd, client, bootstraps, authzVars, waitVars>>

\* func updateAssetTags(client *rpc.Client, args []string)
UpdateAssetTags ==
    /\ pc = "handler" /\ cmd = "updateAssetTags"
    /\ updateTags("/update-asset-tags")
    /\ UNCHANGED <<envVars, cmd, client, bootstraps, authzVars, waitVars>>

\* func buildTransaction(client *rpc.Client, args []string)
BuildTransaction ==
    /\ pc = "handler" /\ cmd = "buildTransaction"
    /\ IF Len(osArgs.rest) # 0
       THEN Fatal(Line("error:updateAccountTags not use args"))
       ELSE /\ pc' = "exited"
            /\ exitCode' = 0
            /\ UNCHANGED <<stderr, logbuf, drains>>
    /\ UNCHANGED <<envVars, cmd, client, bootstraps, stdout, requests, err,
                   authzVars, waitVars>>

Next ==
    \/ Main
    \/ MustRPCClient
    \/ CreateBlockKeyPair
    \/ Reset
    \/ Grant
    \/ Revoke
    \/ Wait
    \/ WaitProbe
    \/ WaitSleep
    \/ CreateAccount
    \/ CreateAsset
    \/ UpdateAccountTags
    \/ UpdateAssetTags
    \/ BuildTransaction

Spec == Init /\ [][Next]_vars


\* ============================================================== properties
\* ------------------------------------------------- vocabulary of the claims
Registered ==
    {"create-block-keypair", "reset", "grant", "revoke", "wait", "create-account",
     "update-account-tags", "create-asset", "update-asset-tags", "build-transaction"}

Done == pc = "exited"
Authz == cmd \in {"grant", "revoke"}

\* a leading argument that the flag parser takes for a flag
IsFlag(s) == Len(s) >= 2 /\ s[1] = "-" /\ s # DASHDASH
NoFlags == osArgs.rest = <<>> \/ ~IsFlag(osArgs.rest[1])
\* the positional arguments of grant/revoke
Positional ==
    IF osArgs.rest # <<>> /\ osArgs.rest[1] = DASHDASH THEN Tail(osArgs.rest) ELSE osArgs.rest

HasEq(g) == \E i \in 1..Len(g) : g[i] = "="
FirstEq(g) == Min({i \in 1..Len(g) : g[i] = "="})
\* g is name=value with name compared case-insensitively
MatchesGuard(g, name) == HasEq(g) /\ ToUpper(SubSeq(g, 1, FirstEq(g) - 1)) = name
ValueAfterEq(g) == SubSeq(g, FirstEq(g) + 1, Len(g))
GuardNames == {<<"T", "O", "K", "E", "N">>, <<"C", "N">>, <<"O", "U">>}
Recognised(g) == \E name \in GuardNames : MatchesGuard(g, name)

\* the bootstrap returned a client, so the handler was called
HandlerCalled == client # NoClient
\* grant/revoke was called with exactly a policy and a guard
TwoPositional == Authz /\ HandlerCalled /\ NoFlags /\ Len(Positional) = 2
TheGuard == Positional[2]

ExpectedGuardType(name) == IF name = <<"T", "O", "K", "E", "N">> THEN "access_token" ELSE "x509"
ExpectedShape(name) ==
    CASE name = <<"T", "O", "K", "E", "N">> -> "id"
      [] name = <<"C", "N">> -> "subject.CN"
      [] OTHER -> "subject.OU"

UsageLine ==
    IF cmd = "grant" THEN Line("usage: corectl grant [policy] [guard]")
    ELSE Line("usage: corectl revoke [policy] [guard]")

OnStderr(ev) == \E i \in 1..Len(stderr) : stderr[i] = ev

\* ------------------------------------------------------------------- C1
\* a probe result that ends the wait: success, or a status error outside 5xx
IsTerminalProbe(e) == e.k = "nil" \/ (e.k = "status" /\ ~(500 <= e.code /\ e.code <= 599))
Probes == Len(requests)
Sleeps == slept \div SleepMs

\* C1: wait called with no arguments stops at exactly the first probe of /info
\* that succeeds or fails with a status error outside 5xx; every probe that
\* fails with a transport error or a 5xx status is followed by one 500 ms
\* sleep and another probe. So N failures with 503 followed by a success end
\* after N+1 probes and N sleeps, and a 404 on the first probe ends after one
\* probe and no sleep.
C1_WaitStopsAtFirstTerminalProbe ==
    /\ [](cmd = "wait" /\ HandlerCalled /\ osArgs.rest = <<>> =>
            /\ slept = SleepMs * Sleeps
            /\ \A i \in 1..Probes : requests[i].path = "/info"
            /\ pc = "probe" => Sleeps = Probes
            /\ pc = "sleep" => Sleeps = Probes - 1 /\ ~IsTerminalProbe(err)
            /\ Done => /\ exitCode = 0
                       /\ IsTerminalProbe(err)
                       /\ Probes = Sleeps + 1
                       /\ (err = Nil /\ n503 = Probes - 1) => Sleeps = n503
                       /\ n503 <= Sleeps)
    /\ [][(pc = "probe" /\ requests' # requests) =>
            /\ Len(requests') = Len(requests) + 1
            /\ slept' = slept
            /\ IF IsTerminalProbe(err') THEN pc' = "exited" /\ exitCode' = 0 ELSE pc' = "sleep"]_vars
    /\ [][pc = "sleep" =>
            pc' = "probe" /\ slept' = slept + 500 /\ requests' = requests]_vars

C1_Witness ==
    /\ cmd = "wait" /\ Done /\ exitCode = 0
    /\ err = Nil /\ Probes = 3 /\ n503 = 2 /\ slept = 1000

\* ------------------------------------------------------------------- C2
\* C2: when grant/revoke is given a guard prefix=value whose prefix is token,
\* CN or OU in any letter case, the one request it sends carries the policy,
\* the guard_type and guard_data shape of that prefix and, as value, exactly
\* what follows the first '=' (the empty string included); no request of
\* grant/revoke ever carries another guard_type/guard_data combination.
C2_GuardRequestConsistent ==
    Authz =>
        /\ \A i \in 1..Len(requests) :
              <<requests[i].guard_type, requests[i].guard_data.shape>> \in
                  {<<"access_token", "id">>, <<"x509", "subject.CN">>, <<"x509", "subject.OU">>}
        /\ ~Done => requests = <<>>
        /\ (Done /\ TwoPositional) =>
              \A name \in GuardNames :
                  MatchesGuard(TheGuard, name) =>
                      requests =
                        <<[path |-> IF cmd = "grant" THEN "/create-authorization-grant"
                                    ELSE "/delete-authorization-grant",
                           policy |-> Positional[1],
                           guard_type |-> ExpectedGuardType(name),
                           guard_data |-> [shape |-> ExpectedShape(name),
                                           value |-> ValueAfterEq(TheGuard)]]>>

C2_Witness ==
    /\ Done /\ cmd = "revoke"
    /\ osArgs.rest = <<P, <<"t", "o", "k", "e", "n", "=", "=", "a">>>>
    /\ Len(requests) = 1
    /\ requests[1].guard_type = "access_token"
    /\ requests[1].guard_data = [shape |-> "id", value |-> <<"=", "a">>]

\* ------------------------------------------------------------------- C8
\* C8: when the type prefix of the guard given to grant/revoke is not TOKEN=,
\* CN= or OU= in any letter case, the unrecognised prefix is printed as typed
\* (the part up to and including the first '=') together with the command's
\* usage line on the error stream, the exit status is 2 and no request is sent.
C8_UnknownGuardExits2 ==
    (Done /\ TwoPositional /\ ~Recognised(TheGuard)) =>
        /\ exitCode = 2
        /\ requests = <<>>
        /\ OnStderr(Ev("unknown guard type",
                       IF HasEq(TheGuard) THEN SubSeq(TheGuard, 1, FirstEq(TheGuard)) ELSE <<>>,
                       Nil, 0))
        /\ OnStderr(UsageLine)
        /\ stdout = <<>>

C8_Witness ==
    /\ Done /\ cmd = "grant" /\ TwoPositional
    /\ TheGuard = <<"C", "N", "N", "=", "a">>
    /\ exitCode = 2
    /\ OnStderr(Ev("unknown guard type", <<"C", "N", "N", "=">>, Nil, 0))

\* ------------------------------------------------------------------ C10
\* C10 as stated: a guard without '=' is taken whole as the type prefix with
\* an empty value, and the unknown-guard message reports the whole token.
C10_NoSeparatorWholeIsType ==
    (Done /\ TwoPositional /\ ~HasEq(TheGuard)) =>
        /\ typ = TheGuard
        /\ data = <<>>
        /\ OnStderr(Ev("unknown guard type", TheGuard, Nil, 0))

\* C10 amended: the guard is split after its first '='; a guard without '='
\* has an empty type prefix and is taken whole as the value, so the
\* unknown-guard message reports an empty type.
C10_SplitAtFirstSeparator ==
    (Done /\ TwoPositional) =>
        IF HasEq(TheGuard)
        THEN /\ typ = SubSeq(TheGuard, 1, FirstEq(TheGuard))
             /\ data = ValueAfterEq(TheGuard)
        ELSE /\ typ = <<>>
             /\ data = TheGuard
             /\ exitCode = 2
             /\ OnStderr(Ev("unknown guard type", <<>>, Nil, 0))

C10_Witness ==
    /\ Done /\ cmd = "grant" /\ TwoPositional
    /\ TheGuard = <<"C", "N">>
    /\ typ = <<>> /\ data = <<"C", "N">>
    /\ exitCode = 2


\* ------------------------------------------------------------------- C3
NonPoller ==
    {"createBlockKeyPair", "reset", "grant", "revoke", "createAccount", "createAsset",
     "updateAccountTags", "updateAssetTags"}

ResultLines == {Line("pub"), Line("responses:")}

\* C3: in every command other than wait, a call that returns an error ends the
\* process at once: the log buffer is flushed, the exit status is 2, and the
\* command neither prints a result nor exits 0.
C3_RPCFailureIsFatal ==
    (Done /\ cmd \in NonPoller /\ requests # <<>> /\ err # Nil) =>
        /\ exitCode = 2
        /\ drains = 1
        /\ \A i \in 1..Len(stdout) : stdout[i] \notin ResultLines

\* ------------------------------------------------------------------- C4
Arity(c) == IF c \in {"createAccount", "createAsset"} THEN 1 ELSE 0

\* a failure inside a command: TLS material that does not load, unparsable
\* flags, a wrong argument count, an unrecognised guard, a failed call
CommandFailed ==
    /\ bootstraps = 1
    /\ \/ tlsState = "invalid"
       \/ Authz /\ (~NoFlags \/ Len(Positional) # 2 \/ ~Recognised(TheGuard))
       \/ ~Authz /\ Len(osArgs.rest) # Arity(cmd)
       \/ cmd # "wait" /\ requests # <<>> /\ err # Nil

\* C4: every failure inside a command first flushes the log buffer to the
\* error stream, then prints a message, then exits with status 2; status 1
\* comes only from the dispatcher, for an unknown command name.
C4_CommandFailuresExit2 ==
    Done =>
        /\ CommandFailed =>
              /\ exitCode = 2
              /\ Len(stderr) >= 2
              /\ stderr[1].kind = "logbuf"
              /\ \A i \in 2..Len(stderr) : stderr[i].kind # "logbuf"
        /\ exitCode = 1 => bootstraps = 0 /\ osArgs.cmd[1] \notin Registered

\* ------------------------------------------------------------------- C5
\* C5: the log buffer is copied to the error stream at most once, and only by
\* a step that ends the process with the fatal status 2; a run that ends with
\* status 0 (wait ending on a status error outside 5xx included) never drains
\* the buffer and writes nothing to the error stream.
C5_DrainOnlyOnFatalExit ==
    /\ drains <= 1
    /\ drains = Cardinality({i \in 1..Len(stderr) : stderr[i].kind = "logbuf"})
    /\ drains = 1 => Done /\ exitCode = 2
    /\ (Done /\ exitCode = 0) => drains = 0 /\ stderr = <<>>

C5_Witness ==
    /\ Done /\ exitCode = 0 /\ cmd = "wait"
    /\ err.k = "status" /\ err.code = 404
    /\ logbuf # <<>> /\ drains = 0 /\ stderr = <<>>

\* ------------------------------------------------------------------- C6
\* mustRPCClient returned
Bootstrapped == bootstraps = 1 /\ HandlerCalled

\* C6 as stated: without the pair the client is bound to the configured URL
\* with no custom transport and no error; with a valid pair the bound URL has
\* the https scheme whatever the configured URL, and the transport is TLS.
C6_TLSAlwaysHttps ==
    Bootstrapped =>
        /\ tlsState = "absent" => client = [BaseURL |-> coreURL, Transport |-> "nil"]
        /\ tlsState = "valid" =>
              /\ client.Transport = "tls"
              /\ Len(client.BaseURL) >= 6
              /\ SubSeq(client.BaseURL, 1, 6) = <<"h", "t", "t", "p", "s", ":">>

StartsWithHttpColon(u) ==
    Len(u) >= 5 /\ u[1] = "h" /\ u[2] = "t" /\ u[3] = "t" /\ u[4] = "p" /\ u[5] = ":"

\* C6 amended: without the pair the client is bound to the configured URL
\* with no custom transport and no error; with a valid pair the client carries
\* the TLS transport, a configured URL that begins with "http:" is bound with
\* that prefix replaced by "https:", and any other configured URL is bound
\* unchanged.
C6_TLSUpgradesHttpPrefix ==
    /\ (pc = "handler" /\ tlsState = "absent") =>
          /\ client = [BaseURL |-> coreURL, Transport |-> "nil"]
          /\ stderr = <<>> /\ exitCode = -1 /\ drains = 0
    /\ Bootstrapped =>
          /\ tlsState # "invalid"
          /\ tlsState = "absent" => client = [BaseURL |-> coreURL, Transport |-> "nil"]
          /\ tlsState = "valid" =>
                /\ client.Transport = "tls"
                /\ IF StartsWithHttpColon(coreURL)
                   THEN client.BaseURL =
                            <<"h", "t", "t", "p", "s", ":">> \o SubSeq(coreURL, 6, Len(coreURL))
                   ELSE client.BaseURL = coreURL

C6_Witness ==
    /\ pc = "handler" /\ tlsState = "valid"
    /\ coreURL = <<"h", "t", "t", "p", ":", "/">>
    /\ client = [BaseURL |-> <<"h", "t", "t", "p", "s", ":", "/">>, Transport |-> "tls"]

\* ------------------------------------------------------------------- C7
\* the paths a handler may call
PathsOf(name) ==
    CASE name = "create-block-keypair" -> {"/mockhsm/create-block-key"}
      [] name = "reset" -> {"/reset"}
      [] name = "grant" -> {"/create-authorization-grant"}
      [] name = "revoke" -> {"/delete-authorization-grant"}
      [] name = "wait" -> {"/info"}
      [] name = "create-account" -> {"/create-account"}
      [] name = "create-asset" -> {"/create-asset"}
      [] name = "update-account-tags" -> {"/update-account-tags"}
      [] name = "update-asset-tags" -> {"/update-asset-tags"}
      [] OTHER -> {}

ArityMessages ==
    {Line("error: create-block-keypair takes no args"), Line("error: reset takes no args"),
     Line("error: wait takes no args"), Line("error: createAccount takes no args"),
     Line("error: createAsset takes no args"), Line("error:updateAccountTags not use args"),
     Line("usage: corectl grant [policy] [guard]"), Line("usage: corectl revoke [policy] [guard]")}

\* C7: without a command argument usage goes to standard output and the exit
\* status is 0; a name without a registered handler gets the unknown-command
\* message and usage on standard error and status 1, with no bootstrap and no
\* handler; a registered name gets exactly one bootstrap and then exactly its
\* own handler, which checks its argument count only after the bootstrap.
C7_Dispatch ==
    /\ bootstraps <= 1
    /\ (Done /\ osArgs.cmd = <<>>) =>
          /\ stdout = <<help>> /\ stderr = <<>> /\ exitCode = 0
          /\ bootstraps = 0 /\ cmd = "" /\ requests = <<>>
    /\ (Done /\ osArgs.cmd # <<>> /\ osArgs.cmd[1] \notin Registered \cup {"-version"}) =>
          /\ stderr = <<Line("unknown command:"), help>> /\ stdout = <<>> /\ exitCode = 1
          /\ bootstraps = 0 /\ cmd = "" /\ ~HandlerCalled /\ requests = <<>> /\ drains = 0
    /\ (osArgs.cmd # <<>> /\ osArgs.cmd[1] \in Registered) =>
          /\ pc \in {"handler", "probe", "sleep", "exited"} => bootstraps = 1
          /\ pc \in {"main", "bootstrap"} => bootstraps = 0 /\ stderr = <<>> /\ requests = <<>>
          /\ \A i \in 1..Len(requests) : requests[i].path \in PathsOf(osArgs.cmd[1])
          /\ \A i \in 1..Len(stderr) : stderr[i] \in ArityMessages => bootstraps = 1
          /\ (Done /\ tlsState # "invalid") => HandlerCalled
          /\ exitCode # 1 \/ cmd \in {"grant", "revoke"}

C7_Witness ==
    /\ Done /\ osArgs = [cmd |-> <<"create-block-keypair">>, rest |-> <<>>]
    /\ bootstraps = 1 /\ Len(requests) = 1 /\ requests[1].path = "/mockhsm/create-block-key"
    /\ exitCode = 0 /\ stdout = <<Line("pub")>>

\* ------------------------------------------------------------------- C9
\* the commands that hand the result of their call to dieOnRPCError
DieCallers == {"createBlockKeyPair", "reset", "grant", "revoke"}

\* a status error carrying a payload with a chain code
Structured(e) == e.k = "status" /\ e.hasData /\ e.chainCode # ""

====
